---- MODULE Spec2Model ----
(***************************************************************************)
(* PrepForge-Web: the retrying request client (fetchWithRetry), the JSON   *)
(* decoder on top of it (fetchJSON) and the mock-interview page (Home).    *)
(*                                                                         *)
(*   SpecFetch : one call of fetchJSON(url, {retries, retryDelay}), which  *)
(*               runs fetchWithRetry and then decodes the response.        *)
(*   Spec      : the Home component: user actions, request completions and *)
(*               the one-second timer.                                     *)
(*   SpecDashboard : the Dashboard component: the session status, its      *)
(*               profile and data requests and the view it renders.        *)
(*   SpecBookmarks : the BookmarkManager component: tag selections and the *)
(*               bookmark and tag requests they issue.                     *)
(***************************************************************************)
EXTENDS Integers, Sequences, FiniteSets, TLC

(***************************************************************************)
(* Bounds                                                                  *)
(***************************************************************************)
MaxRetries == 3

\* questions a generation response carries at most
MaxQuestions == 2

\* seconds the timer is followed for
MaxTimer == 2

\* runs of Dashboard's effect that are followed
MaxEffectRuns == 2

\* tag selections of BookmarkManager that are followed
MaxSelections == 3

\* defaults of fetchWithRetry's options
DefaultRetries == 3

DefaultRetryDelay == 1000

\* the retryDelay option: the default (1000 ms) and a short one
RetryDelays == {1, 1000}

\* statuses a Response can carry, the class boundaries included
Statuses == {200, 299, 300, 399, 400, 499, 500, 599}

\* messages of the TypeError fetch rejects with on a network-level failure
NetMessages == {"", "Failed to fetch"}

(***************************************************************************)
(* Fixed texts of the source                                               *)
(***************************************************************************)
TimeoutMessage == "Request timeout. The server might be waking up (this can take up to 60 seconds on free tier). Please try again."

NetworkFallbackMessage == "Network error. Please check your connection or try again in a moment."

HttpErrorPrefix == "HTTP error! status: "

NullReadMessage == "Cannot read properties of null (reading 'error')"

JsonSyntaxMessage == "Unexpected token in JSON"

(***************************************************************************)
(* Values                                                                  *)
(***************************************************************************)
\* a message: a text, followed by a number when the text is a template
\* ending in ${response.status} (status = 0 otherwise)
Msg(text, n) == [text |-> text, status |-> n]

PlainMsg(text) == Msg(text, 0)

NoOutcome == [kind |-> "none", status |-> 0, name |-> "", message |-> PlainMsg("")]

ResponseOf(s) == [kind |-> "response", status |-> s, name |-> "", message |-> PlainMsg("")]

ErrorOf(name, msg) == [kind |-> "error", status |-> 0, name |-> name, message |-> msg]

\* a field of a JSON object: absent, or present with a string value
Absent == [present |-> FALSE, value |-> ""]

Present(v) == [present |-> TRUE, value |-> v]

FieldValues == {Absent, Present(""), Present("Invalid job role"), Present("Rate limited")}

\* the body of a response: text that is not JSON, the JSON value null, a JSON
\* scalar, or a JSON object with optional error and message fields
Bodies ==
    {[kind |-> k, error |-> Absent, message |-> Absent] : k \in {"invalid", "null", "scalar"}}
    \cup {[kind |-> "object", error |-> e, message |-> m] : e \in FieldValues, m \in FieldValues}

VARIABLES
    retries,     \* option retries of the call
    retryDelay,  \* option retryDelay of the call
    i,           \* the loop variable of fetchWithRetry
    fpc,         \* position in fetchWithRetry
    lastError,   \* the variable lastError
    timers,      \* attempts whose setTimeout(controller.abort) is armed
    aborted,     \* attempts whose controller has been aborted
    outcomes,    \* how each attempt so far ended, in order
    waits,       \* the backoff delays waited so far, in order
    result,      \* what fetchWithRetry returned or threw
    jpc,         \* position in fetchJSON
    jbody,       \* the body fetchJSON read from the response
    jresult      \* what fetchJSON returned or threw

fetchVars == <<retries, retryDelay, i, fpc, lastError, timers, aborted, outcomes,
               waits, result, jpc, jbody, jresult>>

\* the state of the Home component (useState / useRef / useSession)
VARIABLES
    signedIn,            \* session?.user is set
    jobRole,
    company,
    questions,
    isLoading,
    error,
    currentStep,
    currentQuestionIndex,
    currentAnswer,
    feedback,
    isSubmittingAnswer,
    showFeedback,
    followUpQuestion,
    isFetchingFollowUp,
    timer,
    timerRunning,        \* the interval of the timer effect is active
    inflight,            \* the fetch calls of Home that have not settled
    moved                \* history: the calls in flight that were issued before the
                         \* last startMockInterview, nextQuestion or resetToHome

homeVars == <<signedIn, jobRole, company, questions, isLoading, error, currentStep,
              currentQuestionIndex, currentAnswer, feedback, isSubmittingAnswer,
              showFeedback, followUpQuestion, isFetchingFollowUp, timer,
              timerRunning, inflight, moved>>

\* the state of the Dashboard component
VARIABLES
    status,              \* useSession().status
    hasEmail,            \* session?.user?.email is set
    stats,
    interviews,
    dashLoading,         \* Dashboard's loading
    dashError,           \* Dashboard's error
    effectRuns,          \* runs of the effect that issued a profile request
    dashCalls            \* the fetch calls of Dashboard that have not settled

dashVars == <<status, hasEmail, stats, interviews, dashLoading, dashError, effectRuns,
              dashCalls>>

\* the state of the BookmarkManager component
VARIABLES
    bookmarks,           \* the list displayed, named by the tag it was requested for
    bmLoading,           \* BookmarkManager's loading
    selectedTag,
    tags,
    selections,          \* tag selections made so far
    bmCalls,             \* the fetch calls of BookmarkManager that have not settled
    latest               \* history: how the bookmark request of the last selection ended

bookVars == <<bookmarks, bmLoading, selectedTag, tags, selections, bmCalls, latest>>

vars == <<fetchVars, homeVars, dashVars, bookVars>>

(***************************************************************************)
(* fetchWithRetry                                                          *)
(***************************************************************************)
\* Response.ok
Ok(s) == s >= 200 /\ s <= 299

\* variants of ReturnsImmediately: a 4xx is retried; a success is retried
OnlyOkReturns(s) == Ok(s)

OnlyClientErrorReturns(s) == s >= 400 /\ s < 500

\* response.ok || (response.status >= 400 && response.status < 500)
ReturnsImmediately(s) == Ok(s) \/ (s >= 400 /\ s < 500)

\* variant of BackoffDelay: a constant delay
ConstantDelay(d, k) == d

\* retryDelay * (i + 1)
BackoffDelay(d, k) == d * (k + 1)

\* variant of FinalErrorMessage: the generic text whatever the last error
AlwaysFallbackMessage(e) == PlainMsg(NetworkFallbackMessage)

\* lastError?.message || "Network error. ..."
FinalErrorMessage(e) ==
    IF e.kind = "error" /\ e.message.text # "" THEN e.message
    ELSE PlainMsg(NetworkFallbackMessage)

InitFetch ==
    /\ retries \in 0..MaxRetries
    /\ retryDelay \in RetryDelays
    /\ i = 0
    /\ fpc = "loop"
    /\ lastError = NoOutcome
    /\ timers = {}
    /\ aborted = {}
    /\ outcomes = <<>>
    /\ waits = <<>>
    /\ result = NoOutcome
    /\ jpc = "awaiting"
    /\ jbody = [kind |-> "unread", error |-> Absent, message |-> Absent]
    /\ jresult = [kind |-> "none", value |-> jbody, name |-> "", message |-> PlainMsg("")]

\* variant of IssueFetch: the loop bound is retries + 1
IssueFetchOneMore ==
    /\ fpc = "loop"
    /\ i <= retries + 1
    /\ timers' = timers \cup {i}
    /\ fpc' = "fetching"
    /\ UNCHANGED <<retries, retryDelay, i, lastError, aborted, outcomes, waits,
                   result, jpc, jbody, jresult>>
    /\ UNCHANGED <<homeVars, dashVars, bookVars>>

\* loop head with i <= retries: new AbortController, setTimeout, fetch
IssueFetch ==
    /\ fpc = "loop"
    /\ i <= retries
    /\ timers' = timers \cup {i}
    /\ fpc' = "fetching"
    /\ UNCHANGED <<retries, retryDelay, i, lastError, aborted, outcomes, waits,
                   result, jpc, jbody, jresult>>
    /\ UNCHANGED <<homeVars, dashVars, bookVars>>

\* the fetch promise resolves with a response of status s
FetchResolves(s) ==
    /\ fpc = "fetching"
    /\ timers' = timers \ {i}
    /\ outcomes' = Append(outcomes, ResponseOf(s))
    /\ IF ReturnsImmediately(s)
       THEN /\ fpc' = "returned"
            /\ result' = ResponseOf(s)
            /\ waits' = waits
       ELSE IF i < retries
       THEN /\ fpc' = "backoff"
            /\ waits' = Append(waits, BackoffDelay(retryDelay, i))
            /\ result' = result
       ELSE /\ fpc' = "returned"
            /\ result' = ResponseOf(s)
            /\ waits' = waits
    /\ UNCHANGED <<retries, retryDelay, i, lastError, aborted, jpc, jbody, jresult>>
    /\ UNCHANGED <<homeVars, dashVars, bookVars>>

\* the fetch promise rejects with a network-level failure
FetchRejects(m) ==
    /\ fpc = "fetching"
    /\ lastError' = ErrorOf("TypeError", PlainMsg(m))
    /\ outcomes' = Append(outcomes, ErrorOf("TypeError", PlainMsg(m)))
    /\ IF i < retries
       THEN /\ fpc' = "backoff"
            /\ waits' = Append(waits, BackoffDelay(retryDelay, i))
            /\ i' = i
       ELSE /\ fpc' = "loop"
            /\ waits' = waits
            /\ i' = i + 1
    /\ UNCHANGED <<retries, retryDelay, timers, aborted, result, jpc, jbody, jresult>>
    /\ UNCHANGED <<homeVars, dashVars, bookVars>>

\* variant of TimeoutFires: the abort is retried like a network failure
TimeoutRetried ==
    /\ fpc = "fetching"
    /\ i \in timers
    /\ timers' = timers \ {i}
    /\ aborted' = aborted \cup {i}
    /\ lastError' = ErrorOf("AbortError", PlainMsg("The operation was aborted."))
    /\ outcomes' = Append(outcomes, ErrorOf("AbortError", PlainMsg("The operation was aborted.")))
    /\ IF i < retries
       THEN /\ fpc' = "backoff"
            /\ waits' = Append(waits, BackoffDelay(retryDelay, i))
            /\ i' = i
       ELSE /\ fpc' = "loop"
            /\ waits' = waits
            /\ i' = i + 1
    /\ UNCHANGED <<retries, retryDelay, result, jpc, jbody, jresult>>
    /\ UNCHANGED <<homeVars, dashVars, bookVars>>

\* the timeout of the pending attempt fires: controller.abort() rejects the
\* fetch with an AbortError, which the catch block turns into the timeout error
TimeoutFires ==
    /\ fpc = "fetching"
    /\ i \in timers
    /\ timers' = timers \ {i}
    /\ aborted' = aborted \cup {i}
    /\ lastError' = ErrorOf("AbortError", PlainMsg("The operation was aborted."))
    /\ outcomes' = Append(outcomes, ErrorOf("AbortError", PlainMsg("The operation was aborted.")))
    /\ fpc' = "threw"
    /\ result' = ErrorOf("Error", PlainMsg(TimeoutMessage))
    /\ UNCHANGED <<retries, retryDelay, i, waits, jpc, jbody, jresult>>
    /\ UNCHANGED <<homeVars, dashVars, bookVars>>

\* variant of StaleTimerFires: one controller shared by all attempts, so a
\* timeout left armed by an earlier attempt aborts the pending fetch
StaleTimerAbortsFetch(k) ==
    /\ k \in timers
    /\ ~(fpc = "fetching" /\ k = i)
    /\ timers' = timers \ {k}
    /\ aborted' = aborted \cup {k}
    /\ IF fpc = "fetching"
       THEN /\ lastError' = ErrorOf("AbortError", PlainMsg("The operation was aborted."))
            /\ outcomes' = Append(outcomes, ErrorOf("AbortError", PlainMsg("The operation was aborted.")))
            /\ fpc' = "threw"
            /\ result' = ErrorOf("Error", PlainMsg(TimeoutMessage))
       ELSE UNCHANGED <<fpc, lastError, outcomes, result>>
    /\ UNCHANGED <<retries, retryDelay, i, waits, jpc, jbody, jresult>>
    /\ UNCHANGED <<homeVars, dashVars, bookVars>>

\* a timeout left armed by an attempt that has already ended fires
StaleTimerFires(k) ==
    /\ k \in timers
    /\ ~(fpc = "fetching" /\ k = i)
    /\ timers' = timers \ {k}
    /\ aborted' = aborted \cup {k}
    /\ UNCHANGED <<retries, retryDelay, i, fpc, lastError, outcomes, waits, result,
                   jpc, jbody, jresult>>
    /\ UNCHANGED <<homeVars, dashVars, bookVars>>

\* the backoff delay elapses: continue
BackoffDone ==
    /\ fpc = "backoff"
    /\ i' = i + 1
    /\ fpc' = "loop"
    /\ UNCHANGED <<retries, retryDelay, lastError, timers, aborted, outcomes, waits,
                   result, jpc, jbody, jresult>>
    /\ UNCHANGED <<homeVars, dashVars, bookVars>>

\* variant of LoopExit: the last error is returned instead of thrown
LoopExitReturns ==
    /\ fpc = "loop"
    /\ i > retries
    /\ fpc' = "returned"
    /\ result' = ErrorOf("Error", FinalErrorMessage(lastError))
    /\ UNCHANGED <<retries, retryDelay, i, lastError, timers, aborted, outcomes, waits,
                   jpc, jbody, jresult>>
    /\ UNCHANGED <<homeVars, dashVars, bookVars>>

\* the loop ends: throw new Error(lastError?.message || ...)
LoopExit ==
    /\ fpc = "loop"
    /\ i > retries
    /\ fpc' = "threw"
    /\ result' = ErrorOf("Error", FinalErrorMessage(lastError))
    /\ UNCHANGED <<retries, retryDelay, i, lastError, timers, aborted, outcomes, waits,
                   jpc, jbody, jresult>>
    /\ UNCHANGED <<homeVars, dashVars, bookVars>>

(***************************************************************************)
(* fetchJSON                                                               *)
(***************************************************************************)
Truthy(f) == f.present /\ f.value # ""

\* errorData.error || errorData.message || `HTTP error! status: ${response.status}`
ErrorText(errorData, s) ==
    IF Truthy(errorData.error) THEN PlainMsg(errorData.error.value)
    ELSE IF Truthy(errorData.message) THEN PlainMsg(errorData.message.value)
    ELSE Msg(HttpErrorPrefix, s)

\* await response.json().catch(() => ({}))
ErrorData(b) == IF b.kind = "invalid" THEN [kind |-> "object", error |-> Absent, message |-> Absent] ELSE b

\* the Error thrown for a response that is not ok
NotOkError(b, s) ==
    IF ErrorData(b).kind = "null"
    THEN [kind |-> "error", value |-> b, name |-> "TypeError", message |-> PlainMsg(NullReadMessage)]
    ELSE [kind |-> "error", value |-> b, name |-> "Error", message |-> ErrorText(ErrorData(b), s)]

\* return response.json()
Decoded(b) ==
    IF b.kind = "invalid"
    THEN [kind |-> "error", value |-> b, name |-> "SyntaxError", message |-> PlainMsg(JsonSyntaxMessage)]
    ELSE [kind |-> "value", value |-> b, name |-> "", message |-> PlainMsg("")]

\* fetchWithRetry returned a response whose body is b
JsonOfResponse(b) ==
    /\ jpc = "awaiting"
    /\ fpc = "returned"
    /\ jpc' = "done"
    /\ jbody' = b
    /\ jresult' = IF ~Ok(result.status) THEN NotOkError(b, result.status) ELSE Decoded(b)
    /\ UNCHANGED <<retries, retryDelay, i, fpc, lastError, timers, aborted, outcomes,
                   waits, result>>
    /\ UNCHANGED <<homeVars, dashVars, bookVars>>

\* fetchWithRetry threw: the error passes through fetchJSON
JsonPropagates ==
    /\ jpc = "awaiting"
    /\ fpc = "threw"
    /\ jpc' = "done"
    /\ jresult' = [kind |-> "error", value |-> jbody, name |-> result.name, message |-> result.message]
    /\ UNCHANGED <<retries, retryDelay, i, fpc, lastError, timers, aborted, outcomes,
                   waits, result, jbody>>
    /\ UNCHANGED <<homeVars, dashVars, bookVars>>

(***************************************************************************)
(* Properties of fetchWithRetry and fetchJSON (checked under SpecFetch)     *)
(***************************************************************************)
FetchDone == fpc \in {"returned", "threw"}

IsResponse(o) == o.kind = "response"

ServerError(o) == IsResponse(o) /\ o.status >= 500 /\ o.status <= 599

NetworkFailure(o) == o.kind = "error" /\ o.name = "TypeError"

TimedOut(o) == o.kind = "error" /\ o.name = "AbortError"

\* a 5xx response or a network-level failure
RetryableFailure(o) == ServerError(o) \/ NetworkFailure(o)

AllRetryable(n) == \A k \in 1..n : RetryableFailure(outcomes[k])

RECURSIVE SumTo(_)
SumTo(n) == IF n <= 0 THEN 0 ELSE n + SumTo(n - 1)

RECURSIVE SumSeq(_)
SumSeq(q) == IF q = <<>> THEN 0 ELSE Head(q) + SumSeq(Tail(q))

\* attempt n was the last one: nothing was waited for or issued after it
EndedAtAttempt(n) ==
    /\ Len(outcomes) = n
    /\ Len(waits) = n - 1
    /\ FetchDone

\* C1: when every attempt ends in a 5xx response or a network failure, the
\* call finishes after exactly retries+1 attempts, the waits are
\* retryDelay*1, ..., retryDelay*retries in that order (their total is
\* retryDelay*(1+...+retries)), and no wait follows the last attempt.
C1_PermanentFailureAttemptsAndWaits ==
    /\ AllRetryable(Len(outcomes)) =>
          /\ Len(outcomes) <= retries + 1
          /\ \A k \in 1..Len(waits) : waits[k] = retryDelay * k
          /\ Len(waits) <= retries
          /\ Len(waits) <= Len(outcomes)
    /\ (FetchDone /\ AllRetryable(Len(outcomes))) =>
          /\ Len(outcomes) = retries + 1
          /\ Len(waits) = retries
          /\ SumSeq(waits) = retryDelay * SumTo(retries)

C1_Witness ==
    /\ FetchDone
    /\ retries = 3
    /\ AllRetryable(Len(outcomes))
    /\ waits = <<retryDelay, retryDelay * 2, retryDelay * 3>>
    /\ ServerError(outcomes[1])
    /\ NetworkFailure(outcomes[2])

\* C2: a timeout on any attempt ends the call at once with the fixed timeout
\* message: the timed-out attempt is the last one and no wait follows it,
\* whatever number of retries remains.
C2_TimeoutEndsCall ==
    \A n \in 1..Len(outcomes) :
        TimedOut(outcomes[n]) =>
            /\ EndedAtAttempt(n)
            /\ fpc = "threw"
            /\ result = ErrorOf("Error", PlainMsg(TimeoutMessage))

C2_Witness ==
    /\ Len(outcomes) = 2
    /\ TimedOut(outcomes[2])
    /\ retries = 3
    /\ fpc = "threw"

\* C3: a response with a status in [400,499] on any attempt is the final
\* outcome: no attempt and no wait follows it.
C3_ClientErrorReturnedImmediately ==
    \A n \in 1..Len(outcomes) :
        (IsResponse(outcomes[n]) /\ outcomes[n].status >= 400 /\ outcomes[n].status <= 499) =>
            /\ EndedAtAttempt(n)
            /\ fpc = "returned"
            /\ result = outcomes[n]

C3_Witness ==
    /\ Len(outcomes) = 2
    /\ outcomes[2] = ResponseOf(499)
    /\ retries = 3
    /\ fpc = "returned"

\* C4: when the first k attempts (1 <= k <= retries) end in a 5xx response or
\* a network failure and attempt k+1 returns a success status (response.ok,
\* 200..299), the call returns that response after exactly k+1 attempts and
\* exactly k waits.
C4_SuccessAfterRetries ==
    \A n \in 2..Len(outcomes) :
        (AllRetryable(n - 1) /\ IsResponse(outcomes[n]) /\ Ok(outcomes[n].status)) =>
            /\ n - 1 <= retries
            /\ EndedAtAttempt(n)
            /\ fpc = "returned"
            /\ result = outcomes[n]

C4_Witness ==
    /\ outcomes = <<ResponseOf(500), ResponseOf(200)>>
    /\ waits = <<retryDelay>>
    /\ fpc = "returned"
    /\ retries = 3

\* a status the specification classes as Success: [200,399]
SuccessRange(s) == s >= 200 /\ s <= 399

\* C5: a response whose status is anywhere in [200,399] is returned on the
\* attempt that produced it, with no further attempt and no wait.
C5_SuccessRangeReturnedImmediately ==
    \A n \in 1..Len(outcomes) :
        (IsResponse(outcomes[n]) /\ SuccessRange(outcomes[n].status)) =>
            /\ EndedAtAttempt(n)
            /\ fpc = "returned"
            /\ result = outcomes[n]

LastOutcome == outcomes[Len(outcomes)]

Exhausted == FetchDone /\ Len(outcomes) = retries + 1 /\ AllRetryable(Len(outcomes))

\* C6 as stated: when all retries+1 attempts end in retryable failures, the
\* caller gets the outcome of the last attempt: the last 5xx response, or the
\* last network failure's message.
C6_LastOutcomeDelivered ==
    Exhausted =>
        IF IsResponse(LastOutcome)
        THEN fpc = "returned" /\ result = LastOutcome
        ELSE fpc = "threw" /\ result.message = LastOutcome.message

\* C6 amended: ... or, when the last network failure's message is empty, the
\* generic network-error text.
C6_LastOutcomeOrFallbackDelivered ==
    Exhausted =>
        IF IsResponse(LastOutcome)
        THEN fpc = "returned" /\ result = LastOutcome
        ELSE /\ fpc = "threw"
             /\ result.name = "Error"
             /\ result.message =
                   IF LastOutcome.message.text # "" THEN LastOutcome.message
                   ELSE PlainMsg(NetworkFallbackMessage)

C6_Witness ==
    /\ Exhausted
    /\ retries = 2
    /\ outcomes[1] = ErrorOf("TypeError", PlainMsg("Failed to fetch"))
    /\ ServerError(outcomes[2])
    /\ outcomes[3] = ErrorOf("TypeError", PlainMsg(""))
    /\ result.message = PlainMsg(NetworkFallbackMessage)

\* C7 as stated: the request client never throws: a timeout, a network
\* failure after exhausted retries and a 4xx/5xx response all reach the
\* caller as a returned value.
C7_NeverThrows == fpc # "threw"

\* C7 amended: a response (4xx at once, 5xx after exhausted retries) reaches
\* the caller as the returned value; a timeout and a network failure on the
\* last attempt reach the caller as a thrown Error, and nothing else is thrown.
C7_ResponsesReturnedFailuresThrown ==
    FetchDone =>
        /\ Len(outcomes) >= 1
        /\ IsResponse(LastOutcome) <=> fpc = "returned"
        /\ fpc = "returned" => result = LastOutcome
        /\ fpc = "threw" =>
              /\ result.kind = "error"
              /\ result.name = "Error"
              /\ TimedOut(LastOutcome) \/ (NetworkFailure(LastOutcome) /\ Len(outcomes) = retries + 1)
              /\ TimedOut(LastOutcome) <=> result.message = PlainMsg(TimeoutMessage)

C7_Witness ==
    /\ fpc = "threw"
    /\ retries = 1
    /\ Len(outcomes) = 2
    /\ NetworkFailure(outcomes[2])
    /\ ServerError(outcomes[1])

\* the message the specification prescribes for a non-success response
PreferredMessage(b, s) ==
    IF b.kind = "object" /\ b.error.present /\ b.error.value # "" THEN PlainMsg(b.error.value)
    ELSE IF b.kind = "object" /\ b.message.present /\ b.message.value # "" THEN PlainMsg(b.message.value)
    ELSE Msg(HttpErrorPrefix, s)

\* C8: for a non-success response fetchJSON fails with the body's error
\* field if present and non-empty, else its message field if present and
\* non-empty, else "HTTP error! status: N"; a body that is not parseable JSON
\* also gives the generic text.
C8_ErrorMessagePreference ==
    (jpc = "done" /\ fpc = "returned" /\ ~Ok(result.status)) =>
        /\ jresult.kind = "error"
        /\ jresult.message = PreferredMessage(jbody, result.status)

\* C9: fetchJSON returns the decoded body exactly when the outcome is a
\* success, fails with a request error (an Error carrying the message of C8,
\* or the error fetchWithRetry threw) for every other outcome, fails with a
\* decode error when a success body is not parseable JSON, and makes no
\* attempt of its own.
C9_DecoderOutcome ==
    jpc = "done" =>
        LET success == fpc = "returned" /\ Ok(result.status) IN
        /\ FetchDone
        /\ Len(outcomes) <= retries + 1
        /\ (success /\ jbody.kind # "invalid") =>
              jresult.kind = "value" /\ jresult.value = jbody
        /\ (success /\ jbody.kind = "invalid") =>
              jresult.kind = "error" /\ jresult.name = "SyntaxError"
        /\ ~success => jresult.kind = "error" /\ jresult.name = "Error"

(***************************************************************************)
(* Home: the mock-interview page                                           *)
(***************************************************************************)
\* texts a user can type into a field: empty, whitespace only, non-blank
Typed == {"", "  ", "text"}

\* String.prototype.trim on the texts of Typed
Trim(t) == IF t = "  " THEN "" ELSE t

QuestionText(k) == [question |-> "Q", n |-> k]

Undefined == [question |-> "undefined", n |-> 0]

\* questions[currentQuestionIndex]?.question
QuestionAt(qs, k) == IF k + 1 \in 1..Len(qs) THEN qs[k + 1] ELSE Undefined

QuestionList(n) == [k \in 1..n |-> QuestionText(k)]

\* data.questions of a generation response: missing, or a list
QuestionsFields == {[present |-> FALSE, value |-> <<>>]}
                   \cup {[present |-> TRUE, value |-> QuestionList(n)] : n \in 0..MaxQuestions}

\* data.feedback / data.followUpQuestion of a response
TextFields == {Absent, Present(""), Present("server text")}

GenerateFailedText == "Failed to generate questions. Please try again."

FillBothText == "Please fill both fields"

NoAnswerText == "Please provide an answer before submitting"

FeedbackFailedText == "Failed to get feedback. Please try again."

DefaultFeedbackText == "Good response! Keep practicing to improve further."

FollowUpApologyText == "Sorry, I couldn't generate a follow-up. Please proceed to the next question."

\* how a fetch of Home settles: a response that is ok and decodes, a response
\* that is not ok, a response whose body does not decode, a rejection
Settlements == {"ok", "notok", "badjson", "reject"}

Request(kind, endpoint, q, a, t) ==
    [kind |-> kind, endpoint |-> endpoint, question |-> q, answer |-> a, timeSpent |-> t]

InFlight(kind) == \E r \in inflight : r.kind = kind

\* variant of TimerEffect: the effect does not look at showFeedback
TimerEffectIgnoresFeedback(running) ==
    IF <<currentStep', currentQuestionIndex', showFeedback'>>
         # <<currentStep, currentQuestionIndex, showFeedback>>
    THEN currentStep' = "mock"
    ELSE running

\* the timer effect, re-run when one of its dependencies changed; running is
\* the state of the interval the handler left
TimerEffect(running) ==
    IF <<currentStep', currentQuestionIndex', showFeedback'>>
         # <<currentStep, currentQuestionIndex, showFeedback>>
    THEN currentStep' = "mock" /\ ~showFeedback'
    ELSE running

InitHome ==
    /\ signedIn \in BOOLEAN
    /\ jobRole = ""
    /\ company = ""
    /\ questions = <<>>
    /\ isLoading = FALSE
    /\ error = ""
    /\ currentStep = "input"
    /\ currentQuestionIndex = 0
    /\ currentAnswer = ""
    /\ feedback = ""
    /\ isSubmittingAnswer = FALSE
    /\ showFeedback = FALSE
    /\ followUpQuestion = ""
    /\ isFetchingFollowUp = FALSE
    /\ timer = 0
    /\ timerRunning = FALSE
    /\ inflight = {}
    /\ moved = {}

\* onChange of the job role and company inputs
SetJobRole(t) ==
    /\ currentStep = "input"
    /\ jobRole' = t
    /\ UNCHANGED <<signedIn, company, questions, isLoading, error, currentStep,
                   currentQuestionIndex, currentAnswer, feedback, isSubmittingAnswer,
                   showFeedback, followUpQuestion, isFetchingFollowUp, timer,
                   timerRunning, inflight>>
    /\ UNCHANGED moved
    /\ UNCHANGED <<fetchVars, dashVars, bookVars>>

SetCompany(t) ==
    /\ currentStep = "input"
    /\ company' = t
    /\ UNCHANGED <<signedIn, jobRole, questions, isLoading, error, currentStep,
                   currentQuestionIndex, currentAnswer, feedback, isSubmittingAnswer,
                   showFeedback, followUpQuestion, isFetchingFollowUp, timer,
                   timerRunning, inflight>>
    /\ UNCHANGED moved
    /\ UNCHANGED <<fetchVars, dashVars, bookVars>>

\* the generation fetch handleGenerateQuestions issues
GenerateRequest ==
    Request("generate",
            IF signedIn THEN "/api/db/generate-questions" ELSE "/api/generate-questions",
            Undefined, "", 0)

\* variant of handleGenerateQuestions: only jobRole is validated
handleGenerateQuestionsRoleOnly ==
    IF Trim(jobRole) = ""
    THEN /\ error' = FillBothText
         /\ UNCHANGED <<isLoading, inflight>>
    ELSE /\ isLoading' = TRUE
         /\ error' = ""
         /\ inflight' = inflight \cup
               {IF signedIn THEN Request("register", "/api/db/auth/user", Undefined, "", 0)
                ELSE GenerateRequest}

\* handleGenerateQuestions up to its first await
handleGenerateQuestions ==
    IF Trim(jobRole) = "" \/ Trim(company) = ""
    THEN /\ error' = FillBothText
         /\ UNCHANGED <<isLoading, inflight>>
    ELSE /\ isLoading' = TRUE
         /\ error' = ""
         /\ inflight' = inflight \cup
               {IF signedIn THEN Request("register", "/api/db/auth/user", Undefined, "", 0)
                ELSE GenerateRequest}

\* the Generate button
GenerateEnabled ==
    /\ currentStep = "input"
    /\ ~(isLoading \/ Trim(jobRole) = "" \/ Trim(company) = "")

ClickGenerate ==
    /\ GenerateEnabled
    /\ handleGenerateQuestions
    /\ UNCHANGED <<signedIn, jobRole, company, questions, currentStep,
                   currentQuestionIndex, currentAnswer, feedback, isSubmittingAnswer,
                   showFeedback, followUpQuestion, isFetchingFollowUp, timer, timerRunning>>
    /\ UNCHANGED moved
    /\ UNCHANGED <<fetchVars, dashVars, bookVars>>

\* variant of RegisterSettles: a registration response that is not ok ends
\* the generation as a rejection does
RegisterSettlesChecksStatus(how) ==
    /\ \E r \in inflight :
          /\ r.kind = "register"
          /\ IF how \in {"reject", "notok"}
             THEN /\ error' = GenerateFailedText
                  /\ isLoading' = FALSE
                  /\ inflight' = inflight \ {r}
             ELSE /\ inflight' = (inflight \ {r}) \cup {GenerateRequest}
                  /\ UNCHANGED <<error, isLoading>>
    /\ UNCHANGED <<signedIn, jobRole, company, questions, currentStep,
                   currentQuestionIndex, currentAnswer, feedback, isSubmittingAnswer,
                   showFeedback, followUpQuestion, isFetchingFollowUp, timer, timerRunning>>
    /\ moved' = moved \cap inflight'
    /\ UNCHANGED <<fetchVars, dashVars, bookVars>>

\* the registration fetch settles: only a rejection is looked at
RegisterSettles(how) ==
    /\ \E r \in inflight :
          /\ r.kind = "register"
          /\ IF how = "reject"
             THEN /\ error' = GenerateFailedText
                  /\ isLoading' = FALSE
                  /\ inflight' = inflight \ {r}
             ELSE /\ inflight' = (inflight \ {r}) \cup {GenerateRequest}
                  /\ UNCHANGED <<error, isLoading>>
    /\ UNCHANGED <<signedIn, jobRole, company, questions, currentStep,
                   currentQuestionIndex, currentAnswer, feedback, isSubmittingAnswer,
                   showFeedback, followUpQuestion, isFetchingFollowUp, timer, timerRunning>>
    /\ moved' = moved \cap inflight'
    /\ UNCHANGED <<fetchVars, dashVars, bookVars>>

\* variant of GenerateSettles: setIsLoading(false) in the catch block only
GenerateSettlesNoFinally(how, qf) ==
    /\ \E r \in inflight :
          /\ r.kind = "generate"
          /\ inflight' = inflight \ {r}
    /\ IF how = "ok"
       THEN /\ questions' = (IF qf.present THEN qf.value ELSE <<>>)
            /\ currentStep' = "questions"
            /\ error' = error
            /\ isLoading' = isLoading
       ELSE /\ error' = GenerateFailedText
            /\ isLoading' = FALSE
            /\ UNCHANGED <<questions, currentStep>>
    /\ UNCHANGED <<signedIn, jobRole, company, currentQuestionIndex, currentAnswer,
                   feedback, isSubmittingAnswer, showFeedback, followUpQuestion,
                   isFetchingFollowUp, timer>>
    /\ timerRunning' = TimerEffect(timerRunning)
    /\ moved' = moved \cap inflight'
    /\ UNCHANGED <<fetchVars, dashVars, bookVars>>

\* the generation fetch settles
GenerateSettles(how, qf) ==
    /\ \E r \in inflight :
          /\ r.kind = "generate"
          /\ inflight' = inflight \ {r}
    /\ IF how = "ok"
       THEN /\ questions' = (IF qf.present THEN qf.value ELSE <<>>)
            /\ currentStep' = "questions"
            /\ error' = error
       ELSE /\ error' = GenerateFailedText
            /\ UNCHANGED <<questions, currentStep>>
    /\ isLoading' = FALSE
    /\ UNCHANGED <<signedIn, jobRole, company, currentQuestionIndex, currentAnswer,
                   feedback, isSubmittingAnswer, showFeedback, followUpQuestion,
                   isFetchingFollowUp, timer>>
    /\ timerRunning' = TimerEffect(timerRunning)
    /\ moved' = moved \cap inflight'
    /\ UNCHANGED <<fetchVars, dashVars, bookVars>>

\* startMockInterview
startMockInterview ==
    /\ currentStep' = "mock"
    /\ currentQuestionIndex' = 0
    /\ currentAnswer' = ""
    /\ feedback' = ""
    /\ showFeedback' = FALSE
    /\ timer' = 0

\* the Start Mock Interview button of the questions screen
ClickStartMock ==
    /\ currentStep = "questions"
    /\ startMockInterview
    /\ UNCHANGED <<signedIn, jobRole, company, questions, isLoading, error,
                   isSubmittingAnswer, followUpQuestion, isFetchingFollowUp, inflight>>
    /\ timerRunning' = TimerEffect(timerRunning)
    /\ moved' = inflight
    /\ UNCHANGED <<fetchVars, dashVars, bookVars>>

\* onChange of the answer textarea, shown throughout the mock screen
TypeAnswer(t) ==
    /\ currentStep = "mock"
    /\ currentAnswer' = t
    /\ UNCHANGED <<signedIn, jobRole, company, questions, isLoading, error, currentStep,
                   currentQuestionIndex, feedback, isSubmittingAnswer, showFeedback,
                   followUpQuestion, isFetchingFollowUp, timer, timerRunning, inflight>>
    /\ UNCHANGED moved
    /\ UNCHANGED <<fetchVars, dashVars, bookVars>>

\* variant of submitAnswer: the interval is left running
submitAnswerKeepsTimer ==
    IF Trim(currentAnswer) = ""
    THEN /\ error' = NoAnswerText
         /\ UNCHANGED <<isSubmittingAnswer, inflight, timerRunning>>
    ELSE /\ timerRunning' = timerRunning
         /\ isSubmittingAnswer' = TRUE
         /\ error' = ""
         /\ inflight' = inflight \cup
               {Request("feedback", "/api/generate-feedback",
                        QuestionAt(questions, currentQuestionIndex), currentAnswer, timer)}

\* variant of submitAnswer: the interval is cleared before the validation
submitAnswerStopsFirst ==
    IF Trim(currentAnswer) = ""
    THEN /\ error' = NoAnswerText
         /\ timerRunning' = FALSE
         /\ UNCHANGED <<isSubmittingAnswer, inflight>>
    ELSE /\ timerRunning' = FALSE
         /\ isSubmittingAnswer' = TRUE
         /\ error' = ""
         /\ inflight' = inflight \cup
               {Request("feedback", "/api/generate-feedback",
                        QuestionAt(questions, currentQuestionIndex), currentAnswer, timer)}

\* submitAnswer up to its await; it clears the interval held by the ref
submitAnswer ==
    IF Trim(currentAnswer) = ""
    THEN /\ error' = NoAnswerText
         /\ UNCHANGED <<isSubmittingAnswer, inflight, timerRunning>>
    ELSE /\ timerRunning' = FALSE
         /\ isSubmittingAnswer' = TRUE
         /\ error' = ""
         /\ inflight' = inflight \cup
               {Request("feedback", "/api/generate-feedback",
                        QuestionAt(questions, currentQuestionIndex), currentAnswer, timer)}

\* variant of SubmitEnabled: the button is not disabled while submitting
SubmitEnabledWhileSubmitting ==
    /\ currentStep = "mock"
    /\ ~showFeedback
    /\ Trim(currentAnswer) # ""

\* the Submit Answer button
SubmitEnabled ==
    /\ currentStep = "mock"
    /\ ~showFeedback
    /\ ~(isSubmittingAnswer \/ Trim(currentAnswer) = "")

ClickSubmit ==
    /\ SubmitEnabled
    /\ submitAnswer
    /\ UNCHANGED <<signedIn, jobRole, company, questions, isLoading, currentStep,
                   currentQuestionIndex, currentAnswer, feedback, showFeedback,
                   followUpQuestion, isFetchingFollowUp, timer>>
    /\ UNCHANGED moved
    /\ UNCHANGED <<fetchVars, dashVars, bookVars>>

\* variant of FeedbackSettles: data.feedback is stored as it comes
FeedbackSettlesStoresRaw(how, f) ==
    /\ \E r \in inflight :
          /\ r.kind = "feedback"
          /\ inflight' = inflight \ {r}
    /\ IF how = "ok"
       THEN /\ feedback' = (IF f.present THEN f.value ELSE "")
            /\ showFeedback' = TRUE
            /\ error' = error
       ELSE /\ error' = FeedbackFailedText
            /\ UNCHANGED <<feedback, showFeedback>>
    /\ isSubmittingAnswer' = FALSE
    /\ UNCHANGED <<signedIn, jobRole, company, questions, isLoading, currentStep,
                   currentQuestionIndex, currentAnswer, followUpQuestion,
                   isFetchingFollowUp, timer>>
    /\ timerRunning' = TimerEffect(timerRunning)
    /\ moved' = moved \cap inflight'
    /\ UNCHANGED <<fetchVars, dashVars, bookVars>>

\* variant of FeedbackSettles: setIsSubmittingAnswer(false) on success only
FeedbackSettlesNoFinally(how, f) ==
    /\ \E r \in inflight :
          /\ r.kind = "feedback"
          /\ inflight' = inflight \ {r}
    /\ IF how = "ok"
       THEN /\ feedback' = (IF Truthy(f) THEN f.value ELSE DefaultFeedbackText)
            /\ showFeedback' = TRUE
            /\ error' = error
            /\ isSubmittingAnswer' = FALSE
       ELSE /\ error' = FeedbackFailedText
            /\ UNCHANGED <<feedback, showFeedback, isSubmittingAnswer>>
    /\ UNCHANGED <<signedIn, jobRole, company, questions, isLoading, currentStep,
                   currentQuestionIndex, currentAnswer, followUpQuestion,
                   isFetchingFollowUp, timer>>
    /\ timerRunning' = TimerEffect(timerRunning)
    /\ moved' = moved \cap inflight'
    /\ UNCHANGED <<fetchVars, dashVars, bookVars>>

\* the feedback fetch settles
FeedbackSettles(how, f) ==
    /\ \E r \in inflight :
          /\ r.kind = "feedback"
          /\ inflight' = inflight \ {r}
    /\ IF how = "ok"
       THEN /\ feedback' = (IF Truthy(f) THEN f.value ELSE DefaultFeedbackText)
            /\ showFeedback' = TRUE
            /\ error' = error
       ELSE /\ error' = FeedbackFailedText
            /\ UNCHANGED <<feedback, showFeedback>>
    /\ isSubmittingAnswer' = FALSE
    /\ UNCHANGED <<signedIn, jobRole, company, questions, isLoading, currentStep,
                   currentQuestionIndex, currentAnswer, followUpQuestion,
                   isFetchingFollowUp, timer>>
    /\ timerRunning' = TimerEffect(timerRunning)
    /\ moved' = moved \cap inflight'
    /\ UNCHANGED <<fetchVars, dashVars, bookVars>>

\* requestFollowUp up to its await
requestFollowUp ==
    /\ isFetchingFollowUp' = TRUE
    /\ followUpQuestion' = ""
    /\ inflight' = inflight \cup
          {Request("followup", "/api/generate-follow-up",
                   QuestionAt(questions, currentQuestionIndex), currentAnswer, 0)}

\* the Request Follow-up button of the feedback panel
FollowUpEnabled ==
    /\ currentStep = "mock"
    /\ showFeedback
    /\ ~isFetchingFollowUp

ClickFollowUp ==
    /\ FollowUpEnabled
    /\ requestFollowUp
    /\ UNCHANGED <<signedIn, jobRole, company, questions, isLoading, error, currentStep,
                   currentQuestionIndex, currentAnswer, feedback, isSubmittingAnswer,
                   showFeedback, timer, timerRunning>>
    /\ UNCHANGED moved
    /\ UNCHANGED <<fetchVars, dashVars, bookVars>>

\* variant of FollowUpSettles: a failure is reported through error, as
\* submitAnswer reports its own
FollowUpSettlesSetsError(how, f) ==
    /\ \E r \in inflight :
          /\ r.kind = "followup"
          /\ inflight' = inflight \ {r}
    /\ IF how = "ok"
       THEN /\ followUpQuestion' = f.value
            /\ error' = error
       ELSE /\ followUpQuestion' = followUpQuestion
            /\ error' = FollowUpApologyText
    /\ isFetchingFollowUp' = FALSE
    /\ UNCHANGED <<signedIn, jobRole, company, questions, isLoading, currentStep,
                   currentQuestionIndex, currentAnswer, feedback, isSubmittingAnswer,
                   showFeedback, timer, timerRunning>>
    /\ moved' = moved \cap inflight'
    /\ UNCHANGED <<fetchVars, dashVars, bookVars>>

\* the follow-up fetch settles; data.followUpQuestion is stored as it comes
FollowUpSettles(how, f) ==
    /\ \E r \in inflight :
          /\ r.kind = "followup"
          /\ inflight' = inflight \ {r}
    /\ followUpQuestion' = (IF how = "ok" THEN f.value ELSE FollowUpApologyText)
    /\ isFetchingFollowUp' = FALSE
    /\ UNCHANGED <<signedIn, jobRole, company, questions, isLoading, error, currentStep,
                   currentQuestionIndex, currentAnswer, feedback, isSubmittingAnswer,
                   showFeedback, timer, timerRunning>>
    /\ moved' = moved \cap inflight'
    /\ UNCHANGED <<fetchVars, dashVars, bookVars>>

\* variant of nextQuestion: the bound is questions.length
nextQuestionOffByOne ==
    IF currentQuestionIndex < Len(questions)
    THEN /\ currentQuestionIndex' = currentQuestionIndex + 1
         /\ currentAnswer' = ""
         /\ feedback' = ""
         /\ showFeedback' = FALSE
         /\ followUpQuestion' = ""
         /\ error' = ""
         /\ timer' = 0
         /\ currentStep' = currentStep
    ELSE /\ currentStep' = "complete"
         /\ UNCHANGED <<currentQuestionIndex, currentAnswer, feedback, showFeedback,
                        followUpQuestion, error, timer>>

\* variant of nextQuestion: the follow-up text is kept
nextQuestionKeepsFollowUp ==
    IF currentQuestionIndex < Len(questions) - 1
    THEN /\ currentQuestionIndex' = currentQuestionIndex + 1
         /\ currentAnswer' = ""
         /\ feedback' = ""
         /\ showFeedback' = FALSE
         /\ followUpQuestion' = followUpQuestion
         /\ error' = ""
         /\ timer' = 0
         /\ currentStep' = currentStep
    ELSE /\ currentStep' = "complete"
         /\ UNCHANGED <<currentQuestionIndex, currentAnswer, feedback, showFeedback,
                        followUpQuestion, error, timer>>

\* variant of nextQuestion: after the last question, back to the question list
nextQuestionToList ==
    IF currentQuestionIndex < Len(questions) - 1
    THEN /\ currentQuestionIndex' = currentQuestionIndex + 1
         /\ currentAnswer' = ""
         /\ feedback' = ""
         /\ showFeedback' = FALSE
         /\ followUpQuestion' = ""
         /\ error' = ""
         /\ timer' = 0
         /\ currentStep' = currentStep
    ELSE /\ currentStep' = "questions"
         /\ UNCHANGED <<currentQuestionIndex, currentAnswer, feedback, showFeedback,
                        followUpQuestion, error, timer>>

\* nextQuestion
nextQuestion ==
    IF currentQuestionIndex < Len(questions) - 1
    THEN /\ currentQuestionIndex' = currentQuestionIndex + 1
         /\ currentAnswer' = ""
         /\ feedback' = ""
         /\ showFeedback' = FALSE
         /\ followUpQuestion' = ""
         /\ error' = ""
         /\ timer' = 0
         /\ currentStep' = currentStep
    ELSE /\ currentStep' = "complete"
         /\ UNCHANGED <<currentQuestionIndex, currentAnswer, feedback, showFeedback,
                        followUpQuestion, error, timer>>

\* the Next Question / Complete Interview button of the feedback panel
NextEnabled ==
    /\ currentStep = "mock"
    /\ showFeedback

ClickNext ==
    /\ NextEnabled
    /\ nextQuestion
    /\ UNCHANGED <<signedIn, jobRole, company, questions, isLoading, isSubmittingAnswer,
                   isFetchingFollowUp, inflight>>
    /\ timerRunning' = TimerEffect(timerRunning)
    /\ moved' = inflight
    /\ UNCHANGED <<fetchVars, dashVars, bookVars>>

\* resetToHome
resetToHome ==
    /\ currentStep' = "input"
    /\ questions' = <<>>
    /\ jobRole' = ""
    /\ company' = ""
    /\ error' = ""
    /\ currentQuestionIndex' = 0
    /\ currentAnswer' = ""
    /\ feedback' = ""
    /\ showFeedback' = FALSE
    /\ followUpQuestion' = ""
    /\ timer' = 0

\* variant of ClickReset: the reset also clears the pending flags
ClickResetClearsFlags ==
    /\ currentStep \in {"questions", "mock", "complete"}
    /\ resetToHome
    /\ isLoading' = FALSE
    /\ isSubmittingAnswer' = FALSE
    /\ isFetchingFollowUp' = FALSE
    /\ UNCHANGED <<signedIn, inflight>>
    /\ timerRunning' = TimerEffect(timerRunning)
    /\ moved' = inflight
    /\ UNCHANGED <<fetchVars, dashVars, bookVars>>

\* Generate New Questions, End Mock and Start New Interview
ClickReset ==
    /\ currentStep \in {"questions", "mock", "complete"}
    /\ resetToHome
    /\ UNCHANGED <<signedIn, isLoading, isSubmittingAnswer, isFetchingFollowUp, inflight>>
    /\ timerRunning' = TimerEffect(timerRunning)
    /\ moved' = inflight
    /\ UNCHANGED <<fetchVars, dashVars, bookVars>>

\* the interval of the timer effect fires: setTimer(prev => prev + 1)
Tick ==
    /\ timerRunning
    /\ timer < MaxTimer
    /\ timer' = timer + 1
    /\ UNCHANGED <<signedIn, jobRole, company, questions, isLoading, error, currentStep,
                   currentQuestionIndex, currentAnswer, feedback, isSubmittingAnswer,
                   showFeedback, followUpQuestion, isFetchingFollowUp, timerRunning,
                   inflight>>
    /\ UNCHANGED moved
    /\ UNCHANGED <<fetchVars, dashVars, bookVars>>

NextHome ==
    \/ \E t \in Typed : SetJobRole(t)
    \/ \E t \in Typed : SetCompany(t)
    \/ ClickGenerate
    \/ \E how \in Settlements : RegisterSettles(how)
    \/ \E how \in Settlements, qf \in QuestionsFields : GenerateSettles(how, qf)
    \/ ClickStartMock
    \/ \E t \in Typed : TypeAnswer(t)
    \/ ClickSubmit
    \/ \E how \in Settlements, f \in TextFields : FeedbackSettles(how, f)
    \/ ClickFollowUp
    \/ \E how \in Settlements, f \in TextFields : FollowUpSettles(how, f)
    \/ ClickNext
    \/ ClickReset
    \/ Tick

\* handleGenerateQuestions called with whatever the fields hold: the call the
\* handler's own validation (lines 170-173) answers, without the button's
\* check of blank fields
GenerateCalled ==
    /\ currentStep = "input"
    /\ ~isLoading
    /\ handleGenerateQuestions
    /\ UNCHANGED <<signedIn, jobRole, company, questions, currentStep,
                   currentQuestionIndex, currentAnswer, feedback, isSubmittingAnswer,
                   showFeedback, followUpQuestion, isFetchingFollowUp, timer, timerRunning>>
    /\ UNCHANGED moved
    /\ UNCHANGED <<fetchVars, dashVars, bookVars>>

\* submitAnswer called with whatever the textarea holds (lines 288-291)
SubmitAnswerCalled ==
    /\ currentStep = "mock"
    /\ ~showFeedback
    /\ ~isSubmittingAnswer
    /\ submitAnswer
    /\ UNCHANGED <<signedIn, jobRole, company, questions, isLoading, currentStep,
                   currentQuestionIndex, currentAnswer, feedback, showFeedback,
                   followUpQuestion, isFetchingFollowUp, timer>>
    /\ UNCHANGED moved
    /\ UNCHANGED <<fetchVars, dashVars, bookVars>>

NextCalls ==
    \/ NextHome
    \/ GenerateCalled
    \/ SubmitAnswerCalled

(***************************************************************************)
(* Dashboard                                                               *)
(***************************************************************************)
\* useState<string | null>(null)
NoError == "null"

ProfileFailedText == "Failed to fetch user profile."

NoUserText == "Could not find user."

DataFailedText == "Failed to fetch user data."

\* how the profile fetch settles: a user is found; the response is not ok;
\* no user, without and with a message of the server; the body does not
\* decode; the fetch is rejected
ProfileOutcomes == {"user", "notok", "nouser", "nousermsg", "badjson", "reject"}

\* err.message of the error the effect catches
ProfileErrorText(how) ==
    CASE how = "notok" -> ProfileFailedText
      [] how = "nouser" -> NoUserText
      [] how = "nousermsg" -> "User not found"
      [] how = "badjson" -> JsonSyntaxMessage
      [] OTHER -> "Failed to fetch"

\* how Promise.all of the two data fetches and the decoding settle
DataOutcomes == {"ok", "notok", "badjson", "reject"}

\* err.message of the error fetchUserData catches
DataErrorText(how) ==
    CASE how = "notok" -> DataFailedText
      [] how = "badjson" -> JsonSyntaxMessage
      [] OTHER -> "Failed to fetch"

DashCall(kind, n) == [kind |-> kind, run |-> n]

\* what Dashboard renders
DashboardView ==
    IF status = "loading" \/ dashLoading THEN "spinner"
    ELSE IF dashError # NoError THEN "error"
    ELSE IF status = "unauthenticated" THEN "denied"
    ELSE "data"

InitDashboard ==
    /\ status = "loading"
    /\ hasEmail = FALSE
    /\ stats = "null"
    /\ interviews = "empty"
    /\ dashLoading = TRUE
    /\ dashError = NoError
    /\ effectRuns = 0
    /\ dashCalls = {}

\* the effect: getUserIdAndFetchData up to its first await, for status s and
\* a session whose user has an email (e) or not
getUserIdAndFetchData(s, e) ==
    IF s = "authenticated" /\ e
    THEN /\ effectRuns' = effectRuns + 1
         /\ dashCalls' = dashCalls \cup {DashCall("profile", effectRuns + 1)}
    ELSE UNCHANGED <<effectRuns, dashCalls>>

\* useSession settles: status leaves "loading" and the effect re-runs
StatusSettles(s, e) ==
    /\ status = "loading"
    /\ status' = s
    /\ hasEmail' = (s = "authenticated" /\ e)
    /\ getUserIdAndFetchData(s, s = "authenticated" /\ e)
    /\ UNCHANGED <<stats, interviews, dashLoading, dashError>>
    /\ UNCHANGED <<fetchVars, homeVars, bookVars>>

\* useSession delivers a new session object while authenticated
SessionUpdates(e) ==
    /\ status = "authenticated"
    /\ effectRuns < MaxEffectRuns
    /\ hasEmail' = e
    /\ getUserIdAndFetchData(status, e)
    /\ UNCHANGED <<status, stats, interviews, dashLoading, dashError>>
    /\ UNCHANGED <<fetchVars, homeVars, bookVars>>

\* the session ends: the effect re-runs and does nothing
SessionEnds ==
    /\ status = "authenticated"
    /\ status' = "unauthenticated"
    /\ hasEmail' = FALSE
    /\ getUserIdAndFetchData("unauthenticated", FALSE)
    /\ UNCHANGED <<stats, interviews, dashLoading, dashError>>
    /\ UNCHANGED <<fetchVars, homeVars, bookVars>>

\* the profile fetch settles; with a user, fetchUserData runs to its await
ProfileSettles(how) ==
    /\ \E r \in dashCalls :
          /\ r.kind = "profile"
          /\ IF how = "user"
             THEN /\ dashLoading' = TRUE
                  /\ dashCalls' = (dashCalls \ {r}) \cup {DashCall("data", r.run)}
                  /\ UNCHANGED dashError
             ELSE /\ dashError' = ProfileErrorText(how)
                  /\ dashLoading' = FALSE
                  /\ dashCalls' = dashCalls \ {r}
    /\ UNCHANGED <<status, hasEmail, stats, interviews, effectRuns>>
    /\ UNCHANGED <<fetchVars, homeVars, bookVars>>

\* Promise.all of fetchUserData settles; st and iv are statsData.stats and
\* interviewsData.interviews
DataSettles(how, st, iv) ==
    /\ \E r \in dashCalls :
          /\ r.kind = "data"
          /\ dashCalls' = dashCalls \ {r}
    /\ IF how = "ok"
       THEN /\ stats' = st
            /\ interviews' = iv
            /\ dashError' = NoError
       ELSE /\ dashError' = DataErrorText(how)
            /\ UNCHANGED <<stats, interviews>>
    /\ dashLoading' = FALSE
    /\ UNCHANGED <<status, hasEmail, effectRuns>>
    /\ UNCHANGED <<fetchVars, homeVars, bookVars>>

\* Try Again: window.location.reload()
Reload ==
    /\ DashboardView = "error"
    /\ status' = "loading"
    /\ hasEmail' = FALSE
    /\ stats' = "null"
    /\ interviews' = "empty"
    /\ dashLoading' = TRUE
    /\ dashError' = NoError
    /\ effectRuns' = 0
    /\ dashCalls' = {}
    /\ UNCHANGED <<fetchVars, homeVars, bookVars>>

NextDashboard ==
    \/ \E s \in {"authenticated", "unauthenticated"}, e \in BOOLEAN : StatusSettles(s, e)
    \/ \E e \in BOOLEAN : SessionUpdates(e)
    \/ SessionEnds
    \/ \E how \in ProfileOutcomes : ProfileSettles(how)
    \/ \E how \in DataOutcomes, st \in {"stats", "undefined"}, iv \in {"list", "undefined"} :
          DataSettles(how, st, iv)
    \/ Reload

(***************************************************************************)
(* BookmarkManager                                                         *)
(***************************************************************************)
\* the tags of the user's bookmarks
Tags == {"a", "b"}

\* useState<string | null>(null): the All button
NoTag == "null"

\* data.data of the response to the bookmark request for tag t
ResponseFor(t) == <<t>>

BmCall(kind, tag, n) == [kind |-> kind, tag |-> tag, n |-> n]

BmCallsOf(kind) == {r \in bmCalls : r.kind = kind}

\* the effect: fetchBookmarks and fetchTags up to their first await
BookmarkEffect(t, n) ==
    bmCalls' = bmCalls \cup {BmCall("bookmarks", t, n), BmCall("tags", NoTag, n)}

\* the component after its first render and effect
InitBookmarks ==
    /\ bookmarks = <<>>
    /\ bmLoading = TRUE
    /\ selectedTag = NoTag
    /\ tags = {}
    /\ selections = 0
    /\ bmCalls = {BmCall("bookmarks", NoTag, 0), BmCall("tags", NoTag, 0)}
    /\ latest = "pending"

\* the All button and the tag buttons, rendered when loading is false
SelectTag(t) ==
    /\ ~bmLoading
    /\ t \in tags \cup {NoTag}
    /\ t # selectedTag
    /\ selections < MaxSelections
    /\ selectedTag' = t
    /\ selections' = selections + 1
    /\ BookmarkEffect(t, selections + 1)
    /\ latest' = "pending"
    /\ UNCHANGED <<bookmarks, bmLoading, tags>>
    /\ UNCHANGED <<fetchVars, homeVars, dashVars>>

\* a bookmark fetch settles: data.success, no data.success, or an error
BookmarksSettle(how) ==
    /\ \E r \in BmCallsOf("bookmarks") :
          /\ bmCalls' = bmCalls \ {r}
          /\ bookmarks' = (IF how = "success" THEN ResponseFor(r.tag) ELSE bookmarks)
          /\ latest' = (IF r.n = selections THEN how ELSE latest)
    /\ bmLoading' = FALSE
    /\ UNCHANGED <<selectedTag, tags, selections>>
    /\ UNCHANGED <<fetchVars, homeVars, dashVars>>

\* a tag fetch settles
TagsSettle(how, ts) ==
    /\ \E r \in BmCallsOf("tags") : bmCalls' = bmCalls \ {r}
    /\ tags' = (IF how = "success" THEN ts ELSE tags)
    /\ UNCHANGED <<bookmarks, bmLoading, selectedTag, selections, latest>>
    /\ UNCHANGED <<fetchVars, homeVars, dashVars>>

NextBookmarks ==
    \/ \E t \in Tags \cup {NoTag} : SelectTag(t)
    \/ \E how \in {"success", "nosuccess", "reject"} : BookmarksSettle(how)
    \/ \E how \in {"success", "nosuccess", "reject"}, ts \in {{"a"}, Tags} : TagsSettle(how, ts)

(***************************************************************************)
(* Properties of Home (checked under Spec)                                 *)
(***************************************************************************)
\* the steps that may change currentStep, each with the operation behind it
PhaseEdge ==
    \/ /\ currentStep = "input"
       /\ currentStep' = "questions"
       /\ \E qf \in QuestionsFields : GenerateSettles("ok", qf)
    \/ /\ currentStep = "questions"
       /\ currentStep' = "mock"
       /\ ClickStartMock
    \/ /\ currentStep = "mock"
       /\ currentStep' = "complete"
       /\ ClickNext
       /\ currentQuestionIndex >= Len(questions) - 1
    \/ /\ currentStep' = "input"
       /\ ClickReset

\* C10: the phase starts at input and changes only along input->questions
\* (a generation that succeeded), questions->mock (startMockInterview),
\* mock->complete (nextQuestion with no question left) and any->input
\* (resetToHome); in particular complete is left only by a reset.
C10_PhaseEdges ==
    /\ currentStep = "input"
    /\ [][currentStep' # currentStep => PhaseEdge]_vars

C10_Witness ==
    /\ currentStep = "complete"
    /\ Len(questions) = 2
    /\ currentQuestionIndex = 1
    /\ InFlight("followup")

\* C11: whenever the phase is mock, currentQuestionIndex is a position of
\* questions, also after a generation response with an empty or missing list.
C11_IndexValidInMock ==
    currentStep = "mock" =>
        (currentQuestionIndex >= 0 /\ currentQuestionIndex < Len(questions))

\* the state a late completion must leave alone
SessionData == <<feedback, showFeedback, followUpQuestion, questions, error, currentStep>>

\* a call of moved settles in this step
MovedCallSettles == \E r \in moved : r \notin inflight'

\* C12: the completion of a call that was issued before the session moved to
\* another phase or question (startMockInterview, nextQuestion, resetToHome)
\* changes none of feedback, its visibility, followUp, questions, error, phase.
C12_LateCompletionIgnored ==
    [][MovedCallSettles => UNCHANGED SessionData]_vars

CallsOf(kinds) == {r \in inflight : r.kind \in kinds}

\* C13: each category (generate with its registration, submitAnswer,
\* requestFollowUp) has at most one call outstanding, its flag is true while
\* the call is outstanding, and while the flag is true the action's button
\* does nothing.
C13_AtMostOneOutstanding ==
    /\ Cardinality(CallsOf({"register", "generate"})) <= 1
    /\ Cardinality(CallsOf({"feedback"})) <= 1
    /\ Cardinality(CallsOf({"followup"})) <= 1
    /\ CallsOf({"register", "generate"}) # {} => isLoading
    /\ CallsOf({"feedback"}) # {} => isSubmittingAnswer
    /\ CallsOf({"followup"}) # {} => isFetchingFollowUp
    /\ isLoading => ~ENABLED ClickGenerate
    /\ isSubmittingAnswer => ~ENABLED ClickSubmit
    /\ isFetchingFollowUp => ~ENABLED ClickFollowUp

C13_Witness ==
    /\ currentStep = "mock"
    /\ ~showFeedback
    /\ Trim(currentAnswer) # ""
    /\ isSubmittingAnswer
    /\ InFlight("feedback")
    /\ moved = {}

\* C14: resetToHome, in any state, gives phase input, no questions, index 0,
\* empty answer, feedback, followUp and error, feedback not visible, timer 0
\* and every pending flag cleared (so that a second reset changes nothing).
C14_ResetClearsAll ==
    [][ClickReset =>
         /\ currentStep' = "input"
         /\ questions' = <<>>
         /\ currentQuestionIndex' = 0
         /\ currentAnswer' = ""
         /\ feedback' = ""
         /\ followUpQuestion' = ""
         /\ error' = ""
         /\ ~showFeedback'
         /\ timer' = 0
         /\ ~isLoading'
         /\ ~isSubmittingAnswer'
         /\ ~isFetchingFollowUp']_vars

(***************************************************************************)
(* Properties of the handlers' validation (checked under SpecCalls)        *)
(***************************************************************************)
\* C15: submitAnswer with a blank answer issues no call, leaves the phase
\* mock, feedback empty and not visible, the submitting flag false, the
\* index and the timer as they were, and sets the validation error.
C15_BlankAnswerRejected ==
    [][(SubmitAnswerCalled /\ Trim(currentAnswer) = "") =>
         /\ inflight' = inflight
         /\ currentStep' = "mock"
         /\ feedback' = ""
         /\ ~showFeedback'
         /\ ~isSubmittingAnswer'
         /\ currentQuestionIndex' = currentQuestionIndex
         /\ timer' = timer
         /\ timerRunning' = timerRunning
         /\ error' = NoAnswerText]_vars

C15_Witness ==
    /\ currentStep = "mock"
    /\ error = NoAnswerText
    /\ currentAnswer = "  "
    /\ timerRunning
    /\ timer = 1
    /\ inflight = {}

\* C18: handleGenerateQuestions with a blank jobRole or company sets the
\* validation error, issues no call (registration or generation), leaves
\* the phase input and does not set the generating flag.
C18_BlankFieldsRejected ==
    [][(GenerateCalled /\ (Trim(jobRole) = "" \/ Trim(company) = "")) =>
         /\ error' = FillBothText
         /\ inflight' = inflight
         /\ currentStep' = "input"
         /\ ~isLoading'
         /\ questions' = questions]_vars

C18_Witness ==
    /\ currentStep = "input"
    /\ error = FillBothText
    /\ jobRole = "text"
    /\ company = "  "
    /\ ~isLoading
    /\ inflight = {}

(***************************************************************************)
(* Properties of the timer and of the calls of Home (checked under Spec)   *)
(***************************************************************************)
\* C16 as stated: from a non-blank submitAnswer until its response arrives
\* the timer value does not change, and the request's timeSpent is the timer
\* value at the submission.
C16_TimerFrozenWhileSubmitting ==
    \A r \in CallsOf({"feedback"}) : timer = r.timeSpent

\* C16 amended: ... unless the user ends the mock (resetToHome) in between:
\* until then the interval is cleared and the timer equals timeSpent.
C16_TimerFrozenUntilResponseOrReset ==
    \A r \in CallsOf({"feedback"}) \ moved :
        /\ ~timerRunning
        /\ timer = r.timeSpent
        /\ currentStep = "mock"

C16_Witness ==
    /\ \E r \in CallsOf({"feedback"}) \ moved : r.timeSpent = 2
    /\ timer = 2
    /\ currentQuestionIndex = 1

\* C17 as stated: the timer is running exactly when the phase is mock and
\* feedback is not visible.
C17_TimerRunsExactlyInMock ==
    timerRunning <=> (currentStep = "mock" /\ ~showFeedback)

\* a question becomes the active one
QuestionActivated == ClickStartMock \/ (ClickNext /\ currentStep' = "mock")

\* C17 amended: the timer runs only while the phase is mock and feedback is
\* not visible; it is started from 0 when a question is activated and only
\* then, and a submitAnswer that issues its request stops it; it ticks only
\* in mock with feedback not visible, and the timer value changes only by
\* one tick up or by being set to 0.
C17_TimerRunsOnlyInMock ==
    /\ ~timerRunning
    /\ timer = 0
    /\ [][/\ timerRunning' => (currentStep' = "mock" /\ ~showFeedback')
          /\ (~timerRunning /\ timerRunning') => QuestionActivated
          /\ QuestionActivated => (timerRunning' /\ timer' = 0)
          /\ ClickSubmit => ~timerRunning'
          /\ timer' # timer =>
                \/ timer' = 0
                \/ /\ timer' = timer + 1
                   /\ timerRunning
                   /\ currentStep = "mock"
                   /\ ~showFeedback]_vars

C17_Witness ==
    /\ currentStep = "mock"
    /\ ~showFeedback
    /\ ~timerRunning
    /\ timer = 2
    /\ inflight = {}
    /\ error = FeedbackFailedText

\* C19: a valid generate sets the generating flag while its call is
\* outstanding; when the call succeeds the returned question list (the empty
\* list when none is returned) is stored, the phase becomes questions with
\* an empty error, and the flag is cleared.  The error is not empty when a
\* feedback call issued before End Mock fails while the generation is
\* outstanding (C12).
C19_GenerateSuccess ==
    [][/\ ClickGenerate =>
             (isLoading' /\ error' = "" /\ CallsOf({"register", "generate"})' # {})
       /\ CallsOf({"register", "generate"})' # {} => isLoading'
       /\ \A qf \in QuestionsFields :
             GenerateSettles("ok", qf) =>
                /\ questions' = (IF qf.present THEN qf.value ELSE <<>>)
                /\ currentStep = "input"
                /\ currentStep' = "questions"
                /\ error' = ""
                /\ ~isLoading'
                /\ CallsOf({"register", "generate"})' = {}]_vars

Failures == Settlements \ {"ok"}

KeptOnFailure == <<currentStep, questions, currentQuestionIndex, currentAnswer>>

\* C20: a failure (response not ok, body not decodable, fetch rejected) of
\* generate, submitAnswer or requestFollowUp leaves phase, questions, index
\* and answer unchanged, sets the error text (generate, submitAnswer) and
\* clears the action's flag, so that its button is enabled again wherever it
\* is shown with non-blank input.
C20_FailureNonFatal ==
    [][/\ ((\E how \in Failures, qf \in QuestionsFields : GenerateSettles(how, qf))
           \/ RegisterSettles("reject")) =>
             /\ UNCHANGED KeptOnFailure
             /\ error' = GenerateFailedText
             /\ ~isLoading'
             /\ (Trim(jobRole') # "" /\ Trim(company') # "") => GenerateEnabled'
       /\ (\E how \in Failures, f \in TextFields : FeedbackSettles(how, f)) =>
             /\ UNCHANGED KeptOnFailure
             /\ UNCHANGED <<feedback, showFeedback>>
             /\ error' = FeedbackFailedText
             /\ ~isSubmittingAnswer'
             /\ (currentStep' = "mock" /\ ~showFeedback' /\ Trim(currentAnswer') # "")
                   => SubmitEnabled'
       /\ (\E how \in Failures, f \in TextFields : FollowUpSettles(how, f)) =>
             /\ UNCHANGED KeptOnFailure
             /\ UNCHANGED <<error, feedback, showFeedback>>
             /\ followUpQuestion' = FollowUpApologyText
             /\ ~isFetchingFollowUp'
             /\ (currentStep' = "mock" /\ showFeedback') => FollowUpEnabled']_vars

C20_Witness ==
    /\ currentStep = "mock"
    /\ currentQuestionIndex = 1
    /\ error = FeedbackFailedText
    /\ currentAnswer = "text"
    /\ ~isSubmittingAnswer
    /\ ~showFeedback
    /\ inflight = {}

\* C21: startMockInterview, called in any reachable state of the questions
\* phase, gives phase mock with index 0, an empty answer, empty feedback that
\* is not shown, an empty follow-up, timer 0 and the interval running, and
\* leaves questions unchanged.
C21_StartMockResets ==
    [][ClickStartMock =>
          /\ currentStep' = "mock"
          /\ currentQuestionIndex' = 0
          /\ currentAnswer' = ""
          /\ feedback' = ""
          /\ ~showFeedback'
          /\ followUpQuestion' = ""
          /\ timer' = 0
          /\ timerRunning'
          /\ questions' = questions]_vars

\* C22: when the feedback call of submitAnswer succeeds, a non-empty feedback
\* text is stored and shown for the current question of the mock phase, the
\* submitting flag is cleared, the error is empty and the interval stays
\* stopped; phase, index and questions are unchanged.
C22_FeedbackSuccess ==
    [][\A f \in TextFields :
          FeedbackSettles("ok", f) =>
             /\ feedback' # ""
             /\ showFeedback'
             /\ currentStep' = "mock"
             /\ ~isSubmittingAnswer'
             /\ error' = ""
             /\ ~timerRunning'
             /\ UNCHANGED <<currentStep, currentQuestionIndex, questions>>]_vars

\* C23: when the feedback call of submitAnswer fails, the error is set, the
\* feedback stays empty and hidden, the interval stays stopped with the timer
\* at its value at submission, and Submit Answer is enabled again for the
\* same question with the answer as it was.
C23_FeedbackFailure ==
    [][\A how \in Failures, f \in TextFields :
          FeedbackSettles(how, f) =>
             /\ error' = FeedbackFailedText
             /\ feedback' = ""
             /\ ~showFeedback'
             /\ ~timerRunning'
             /\ \A r \in CallsOf({"feedback"}) : timer' = r.timeSpent
             /\ UNCHANGED <<currentStep, currentQuestionIndex, questions, currentAnswer>>
             /\ Trim(currentAnswer') # "" => SubmitEnabled']_vars

\* C24: requestFollowUp keeps isFetchingFollowUp set while its call is
\* outstanding; a success stores the returned text, a failure stores the
\* fixed apology; either way the flag is cleared and error, phase, index,
\* feedback and showFeedback are unchanged.
C24_FollowUpOutcome ==
    /\ [](CallsOf({"followup"}) # {} => isFetchingFollowUp)
    /\ [][/\ ClickFollowUp =>
                /\ isFetchingFollowUp'
                /\ CallsOf({"followup"})' # {}
                /\ UNCHANGED <<error, currentStep, currentQuestionIndex, feedback, showFeedback>>
          /\ \A how \in Settlements, f \in TextFields :
                FollowUpSettles(how, f) =>
                   /\ followUpQuestion' = (IF how = "ok" THEN f.value ELSE FollowUpApologyText)
                   /\ ~isFetchingFollowUp'
                   /\ CallsOf({"followup"})' = {}
                   /\ UNCHANGED <<error, currentStep, currentQuestionIndex, feedback,
                                  showFeedback>>]_vars

C24_Witness ==
    /\ currentStep = "mock"
    /\ showFeedback
    /\ followUpQuestion = FollowUpApologyText
    /\ ~isFetchingFollowUp
    /\ error = ""
    /\ inflight = {}

\* C25: nextQuestion, called while the feedback is shown in the mock phase:
\* with currentQuestionIndex + 1 < Len(questions) it adds exactly 1 to the
\* index, clears answer, feedback, showFeedback and follow-up, sets the timer
\* to 0, restarts the interval and stays in mock; otherwise it moves to
\* complete and leaves the index unchanged.
C25_AdvanceEffect ==
    [][ClickNext =>
          /\ currentStep = "mock" /\ showFeedback
          /\ IF currentQuestionIndex + 1 < Len(questions)
             THEN /\ currentQuestionIndex' = currentQuestionIndex + 1
                  /\ currentAnswer' = ""
                  /\ feedback' = ""
                  /\ ~showFeedback'
                  /\ followUpQuestion' = ""
                  /\ timer' = 0
                  /\ timerRunning'
                  /\ currentStep' = "mock"
             ELSE /\ currentStep' = "complete"
                  /\ currentQuestionIndex' = currentQuestionIndex
          /\ questions' = questions]_vars

C25_Witness ==
    /\ currentStep = "mock"
    /\ currentQuestionIndex = 1
    /\ Len(questions) = 2
    /\ ~showFeedback
    /\ feedback = ""
    /\ followUpQuestion = ""
    /\ timer = 0
    /\ timerRunning

\* C26: generate, submitAnswer and requestFollowUp issue their calls through
\* fetchJSON and fetchWithRetry, so a failure reaches the page only after
\* fetchWithRetry has made its attempts and fetchJSON has finished.
C26_FailuresSurfaceAfterRetries ==
    [][\A how \in Failures, qf \in QuestionsFields, f \in TextFields :
          (GenerateSettles(how, qf) \/ FeedbackSettles(how, f) \/ FollowUpSettles(how, f)) =>
             /\ FetchDone'
             /\ jpc' = "done"
             /\ Len(outcomes') \in 1..retries' + 1]_vars

\* C27: with a list of n >= 1 questions the index starts at 0 with the mock
\* phase, changes inside a session only by nextQuestion adding 1, stays below
\* n, and the phase becomes complete by the nextQuestion called at index
\* n - 1 and by no earlier one: generate, startMock, then n times (submit,
\* next) visits 0, 1, ..., n-1 in order and ends in complete.
C27_IndexSequence ==
    /\ []((currentStep \in {"mock", "complete"} /\ Len(questions) >= 1) =>
             currentQuestionIndex \in 0..Len(questions) - 1)
    /\ [][/\ ClickStartMock => (currentStep' = "mock" /\ currentQuestionIndex' = 0)
          /\ (currentStep = "mock" /\ currentQuestionIndex' # currentQuestionIndex) =>
                \/ ClickNext /\ currentQuestionIndex' = currentQuestionIndex + 1
                \/ ClickReset
          /\ (currentStep = "mock" /\ questions' # questions) => ClickReset
          /\ (ClickNext /\ currentQuestionIndex < Len(questions) - 1) => currentStep' = "mock"
          /\ (currentStep # "complete" /\ currentStep' = "complete" /\ Len(questions) >= 1) =>
                /\ ClickNext
                /\ currentQuestionIndex = Len(questions) - 1
                /\ currentQuestionIndex' = currentQuestionIndex]_vars

C27_Witness ==
    /\ currentStep = "complete"
    /\ Len(questions) = 2
    /\ currentQuestionIndex = 1
    /\ error = ""
    /\ inflight = {}

\* C28: Next is enabled only while the feedback is shown, and the feedback
\* becomes shown only in the mock phase by the success of a feedback call
\* that submitAnswer issued for the question at currentQuestionIndex after
\* the session last started, advanced or was reset.
C28_AdvanceNeedsOwnFeedback ==
    [][/\ ClickNext => showFeedback
       /\ (~showFeedback /\ showFeedback') =>
             /\ currentStep = "mock"
             /\ \E r \in CallsOf({"feedback"}) \ moved :
                   /\ r \notin inflight'
                   /\ r.question = QuestionAt(questions, currentQuestionIndex)]_vars

\* C29: every attempt arms its own timeout when it starts; no timeout is armed
\* for an attempt before it starts, so a backoff does not count against it;
\* a timeout left armed by an earlier attempt changes nothing of the call when
\* it fires, and a reported timeout is the abort of the last attempt issued.
C29_TimeoutPerAttempt ==
    /\ [](fpc = "fetching" => i \in timers)
    /\ [](fpc = "loop" => \A k \in timers : k < i)
    /\ [](\A k \in timers \cup aborted : k <= i)
    /\ []((fpc = "threw" /\ result.message = PlainMsg(TimeoutMessage)) =>
             /\ i \in aborted
             /\ Len(outcomes) = i + 1
             /\ TimedOut(LastOutcome))
    /\ [][/\ IssueFetch => (i \notin timers /\ i \in timers')
          /\ (\E k \in 0..MaxRetries + 1 : StaleTimerFires(k)) =>
                UNCHANGED <<fpc, i, outcomes, lastError, result, waits>>
          /\ (fpc = "fetching" /\ fpc' = "threw") => i \in aborted']_vars

C29_Witness ==
    /\ fpc = "returned"
    /\ Ok(result.status)
    /\ Len(outcomes) = 3
    /\ NetworkFailure(outcomes[1])
    /\ NetworkFailure(outcomes[2])
    /\ aborted = {0, 1}

\* C30: a follow-up text is stored only by the completion of a follow-up call
\* issued for the current question after the session last started, advanced
\* or was reset, and no text is carried into a mock phase or to the next
\* question: a non-empty followUpQuestion in the mock phase belongs to the
\* question at currentQuestionIndex.
C30_FollowUpBelongsToQuestion ==
    [][/\ (followUpQuestion' # followUpQuestion /\ followUpQuestion' # "") =>
             \E r \in CallsOf({"followup"}) \ moved :
                /\ r \notin inflight'
                /\ r.question = QuestionAt(questions, currentQuestionIndex)
       /\ (ClickStartMock \/ (ClickNext /\ currentStep' = "mock")) =>
             followUpQuestion' = ""]_vars

\* C31: in every reachable state each pending flag (isLoading,
\* isSubmittingAnswer, isFetchingFollowUp) is true exactly when one call of
\* its category is outstanding, and no category has more than one; reset,
\* next and start change neither a flag nor the outstanding calls.
C31_FlagIffOutstanding ==
    /\ Cardinality(CallsOf({"register", "generate"})) = (IF isLoading THEN 1 ELSE 0)
    /\ Cardinality(CallsOf({"feedback"})) = (IF isSubmittingAnswer THEN 1 ELSE 0)
    /\ Cardinality(CallsOf({"followup"})) = (IF isFetchingFollowUp THEN 1 ELSE 0)

C31_Witness ==
    /\ currentStep = "input"
    /\ isSubmittingAnswer
    /\ isFetchingFollowUp
    /\ moved = inflight
    /\ Cardinality(inflight) = 2

\* C33: whenever showFeedback is true the feedback text is not empty (a
\* response without a feedback text stores the fixed default), and start,
\* next (to another question) and reset clear the text and showFeedback
\* together.
C33_VisibleFeedbackNonEmpty ==
    /\ [](showFeedback => feedback # "")
    /\ [][(ClickStartMock \/ ClickReset \/ (ClickNext /\ currentStep' = "mock")) =>
             (feedback' = "" /\ ~showFeedback')]_vars

C33_Witness ==
    /\ currentStep = "mock"
    /\ showFeedback
    /\ feedback = DefaultFeedbackText

\* C34: from the submission of an answer until the question is left, that
\* is while the feedback call of the current question is outstanding or its
\* feedback is shown, currentAnswer does not change, so a follow-up call
\* carries the answer the feedback call carried.
C34_AnswerFixedAfterSubmission ==
    [][(/\ currentStep = "mock"
        /\ showFeedback \/ CallsOf({"feedback"}) \ moved # {}
        /\ ~(ClickNext \/ ClickReset)) =>
          /\ currentAnswer' = currentAnswer
          /\ ClickFollowUp =>
                \A r \in CallsOf({"followup"})' \ inflight : r.answer = currentAnswer]_vars

\* C36: for a signed-in user the registration call is issued first and the
\* generation call only when it has settled, to the authenticated endpoint; a
\* rejected registration fetch ends generate with the error and no generation
\* call, any registration response (ok or not) is followed by the generation
\* call; for an anonymous user there is no registration call and the
\* generation call goes to the unauthenticated endpoint.
C36_RegistrationBeforeGeneration ==
    /\ [](\A r \in CallsOf({"generate"}) :
             r.endpoint = (IF signedIn THEN "/api/db/generate-questions"
                           ELSE "/api/generate-questions"))
    /\ [](~signedIn => CallsOf({"register"}) = {})
    /\ [](CallsOf({"register"}) # {} => CallsOf({"generate"}) = {})
    /\ [][/\ ClickGenerate =>
                IF signedIn
                THEN CallsOf({"register"})' # {} /\ CallsOf({"generate"})' = {}
                ELSE CallsOf({"generate"})' # {}
          /\ (CallsOf({"generate"}) = {} /\ CallsOf({"generate"})' # {} /\ signedIn) =>
                \E how \in Settlements \ {"reject"} : RegisterSettles(how)
          /\ \A how \in Settlements \ {"reject"} :
                RegisterSettles(how) =>
                   (CallsOf({"generate"})' # {} /\ isLoading' /\ error' = error)
          /\ RegisterSettles("reject") =>
                /\ CallsOf({"register", "generate"})' = {}
                /\ error' = GenerateFailedText
                /\ ~isLoading'
                /\ currentStep' = "input"]_vars

C36_Witness ==
    /\ signedIn
    /\ currentStep = "questions"
    /\ Len(questions) = 1
    /\ error = ""
    /\ ~isLoading

\* C32: when every issued call eventually settles (with a response or a
\* rejection), every pending flag that is set is eventually cleared, on the
\* success path and on every failure path, so no button stays disabled by
\* its flag forever: from any state each flag is clear again at some later
\* state.
C32_FlagsEventuallyCleared ==
    /\ []<>(~isLoading)
    /\ []<>(~isSubmittingAnswer)
    /\ []<>(~isFetchingFollowUp)

C32_Witness ==
    /\ currentStep = "input"
    /\ error = GenerateFailedText
    /\ ~isLoading
    /\ signedIn
    /\ inflight = {}

\* an outcome after which fetchWithRetry makes no further attempt
Stops(o) ==
    \/ IsResponse(o) /\ (Ok(o.status) \/ o.status \in 400..499)
    \/ TimedOut(o)

\* C35: for every retries >= 0 and every sequence of attempt outcomes,
\* fetchWithRetry ends after at most retries + 1 attempts, makes no attempt
\* after a success, a 4xx or a timeout, and waits only between two
\* consecutive attempts.
C35_TerminatesWithinAttempts ==
    /\ [](Len(outcomes) <= retries + 1)
    /\ [](\A k \in 1..Len(outcomes) - 1 : ~Stops(outcomes[k]))
    /\ []((Len(outcomes) >= 1 /\ Stops(LastOutcome)) => FetchDone)
    /\ [](fpc = "fetching" => Len(waits) = Len(outcomes))
    /\ [](FetchDone => Len(waits) = Len(outcomes) - 1)
    /\ <>FetchDone

C35_Witness ==
    /\ fpc = "threw"
    /\ retries = 2
    /\ Len(outcomes) = 3
    /\ Len(waits) = 2
    /\ NetworkFailure(outcomes[3])

\* C37: the dashboard leaves its loading view: once the session status has
\* settled and no request of the dashboard is outstanding, the spinner is not
\* shown; an unauthenticated user sees Access Denied, an authenticated one the
\* data or the error view.
C37_LoadingViewLeft ==
    (status # "loading" /\ dashCalls = {}) =>
        /\ DashboardView # "spinner"
        /\ (status = "unauthenticated" /\ dashError = NoError) => DashboardView = "denied"

\* C38: once all bookmark requests have settled, and the request issued for
\* the selected tag succeeded, the list displayed is the response to that
\* request, whatever the order in which the responses arrived.
C38_ListMatchesSelectedTag ==
    (BmCallsOf("bookmarks") = {} /\ latest = "success") =>
        bookmarks = ResponseFor(selectedTag)

NextFetch ==
    \/ IssueFetch
    \/ \E s \in Statuses : FetchResolves(s)
    \/ \E m \in NetMessages : FetchRejects(m)
    \/ TimeoutFires
    \/ \E k \in 0..MaxRetries + 1 : StaleTimerFires(k)
    \/ BackoffDone
    \/ LoopExit
    \/ \E b \in Bodies : JsonOfResponse(b)
    \/ JsonPropagates

\* fetchWithRetry at rest, with its default options
IdleFetch ==
    /\ InitFetch
    /\ retries = DefaultRetries
    /\ retryDelay = DefaultRetryDelay

\* Home before any call is made
IdleHome ==
    /\ InitHome
    /\ signedIn = FALSE

InitOfFetch == InitFetch /\ IdleHome /\ InitDashboard /\ InitBookmarks

Init == IdleFetch /\ InitHome /\ InitDashboard /\ InitBookmarks

SpecFetch == InitOfFetch /\ [][NextFetch]_vars

Spec == Init /\ [][NextHome]_vars

\* Home with its handlers also called past the buttons' blank checks
SpecCalls == Init /\ [][NextCalls]_vars

\* every fetch of Home settles: it gets a response or is rejected, and the
\* continuation after the await runs
SettlesFair ==
    /\ WF_vars(\E how \in Settlements : RegisterSettles(how))
    /\ WF_vars(\E how \in Settlements, qf \in QuestionsFields : GenerateSettles(how, qf))
    /\ WF_vars(\E how \in Settlements, f \in TextFields : FeedbackSettles(how, f))
    /\ WF_vars(\E how \in Settlements, f \in TextFields : FollowUpSettles(how, f))

SpecLive == Init /\ [][NextHome]_vars /\ SettlesFair

\* the steps of one fetchWithRetry call: the loop runs on, a pending fetch
\* settles or its timeout fires, setTimeout's delay elapses
FetchProgress ==
    \/ IssueFetch
    \/ \E s \in Statuses : FetchResolves(s)
    \/ \E m \in NetMessages : FetchRejects(m)
    \/ TimeoutFires
    \/ BackoffDone
    \/ LoopExit

SpecFetchLive == InitOfFetch /\ [][NextFetch]_vars /\ WF_vars(FetchProgress)

\* the components as mounted, Home and fetchWithRetry at rest
InitOfComponents == IdleFetch /\ IdleHome /\ InitDashboard /\ InitBookmarks

\* Dashboard alone
SpecDashboard == InitOfComponents /\ [][NextDashboard]_vars

\* BookmarkManager alone
SpecBookmarks == InitOfComponents /\ [][NextBookmarks]_vars

====
